---- MODULE Spec2Model ----
(***************************************************************************)
(* Model of mind_taska.py: MTConfig / MindTaska.                           *)
(*   _parse_node, extract_tasks : mindmap tree -> flat task records        *)
(*   get_stat                   : task records -> one stat snapshot row    *)
(*   diff_stat                  : new/closed counts against self.tasks     *)
(*   update_data, save_excel    : the in-memory history and the workbook   *)
(*   full_parse                 : the pipeline built from the above        *)
(* Python's None (and an absent XML attribute, which dict.get turns into   *)
(* None) is the string None.  A mindmap file is the sequence of its topic  *)
(* elements below the central topic, numbered by the position of their     *)
(* start tag in the document; up is the number of the enclosing topic      *)
(* (0: the central topic).                                                 *)
(***************************************************************************)
EXTENDS Integers, Sequences, FiniteSets, TLC

VARIABLES
    excel_path,     \* self.config.excel_path
    tasks,          \* self.tasks: <<>> is None, <<table>> a DataFrame
    stats,          \* self.stats: <<>> is None, <<frame>> a DataFrame
    mindmap,        \* the file at maindmap_path
    arg_path,       \* full_parse's excel_path argument
    pc,             \* the statement of full_parse that runs next
    out,            \* extract_tasks' local list tasks
    proj_i,         \* position of extract_tasks' loop in main_node
    stack,          \* pending _parse_node calls, innermost first
    calls,          \* history: the _parse_node calls made, in call order
    new_tasks,      \* full_parse's local tasks (a DataFrame's rows)
    new_stats,      \* full_parse's local stats (a one-row frame's row)
    row_i,          \* position of diff_stat's loop in new_tasks
    new_tasks_count,
    closed_tasks_count,
    store,          \* the workbook on disk: <<>> none, <<[tasks, stats]>>
    warned,         \* save_excel issued its warning
    clock,          \* datetime.now(), counted in calls
    runs            \* completed top-level calls

vars == <<excel_path, tasks, stats, mindmap, arg_path, pc, out, proj_i, stack,
          calls, new_tasks, new_stats, row_i, new_tasks_count,
          closed_tasks_count, store, warned, clock, runs>>

None == "None"

EmptyDict == [k \in {} |-> None]

\* dict.get(key): the value, or None when the key is absent.
DictGet(d, k) == IF k \in DOMAIN d THEN d[k] ELSE None

\* Python truthiness of a str-or-None value.
Truthy(v) == v # None /\ v # ""

\* a or b
PyOr(a, b) == IF Truthy(a) THEN a ELSE b

(***************************************************************************)
(* Configuration: the two mapping tables of MTConfig.                      *)
(***************************************************************************)
shape_type_mapping == [s \in {"rect", "oval"} |->
                          IF s = "rect" THEN "bug" ELSE "feature"]

color_status_mapping == [c \in {"green", "red", "blue"} |->
                          IF c = "green" THEN "complete"
                          ELSE IF c = "red" THEN "open" ELSE "complite"]

(***************************************************************************)
(* Mindmap documents.                                                      *)
(***************************************************************************)
\* The most topics below the central topic in a document given to the flattener.
MaxNodes == 4

RECURSIVE AncOrSelf(_, _)
\* n and the topics enclosing it, under the parent links u.
AncOrSelf(u, n) == IF n = 0 THEN {} ELSE {n} \cup AncOrSelf(u, u[n])

\* Parent links of a document of n topics numbered in document order: a topic's
\* start tag follows its predecessor's, inside it or inside one enclosing it.
Nestings(n) == {u \in [1..n -> 0..(n - 1)] :
                  \A i \in 1..n : u[i] = 0 \/ (i > 1 /\ u[i] \in AncOrSelf(u, i - 1))}

\* Topic labels that differ from topic to topic.
Labels == <<"A", "B", "C", "D", "E", "F">>

\* The document with attributes a and parent links u; the text "#" stands for
\* the label of the topic's own position.
Document(a, u) ==
    [i \in DOMAIN a |-> [text |-> IF a[i][1] = "#" THEN Labels[i] ELSE a[i][1], shape |-> a[i][2][1], bgColor |-> a[i][2][2],
                         eicon |-> a[i][2][3], up |-> u[i]]]

\* m is a document of at most max topics with attributes from the given sets.
IsMindmap(m, max, attrs) ==
    \E n \in 0..max :
      \E a \in [1..n -> attrs], u \in Nestings(n) :
        m = Document(a, u)

RECURSIVE ChildrenFrom(_, _, _)
ChildrenFrom(m, n, i) ==
    IF i > Len(m) THEN <<>>
    ELSE (IF m[i].up = n THEN <<i>> ELSE <<>>) \o ChildrenFrom(m, n, i + 1)

\* What xmltodict puts under the key "topic" of element n (0: the central
\* topic): nothing for no child, the child itself for one, a list for several.
Topic(m, n) ==
    LET c == ChildrenFrom(m, n, 1) IN
    IF Len(c) = 0 THEN [kind |-> "absent", items |-> <<>>]
    ELSE IF Len(c) = 1 THEN [kind |-> "dict", items |-> c]
    ELSE [kind |-> "list", items |-> c]

(***************************************************************************)
(* _parse_node                                                             *)
(***************************************************************************)
\* parent = parent or {}
ParentOrEmpty(parent) == IF parent = <<>> THEN EmptyDict ELSE parent[1]

\* NodeResult with the topic's own text taken for the project label.
NodeResultOwnProject(node, project, parent) ==
    [task    |-> node.text,
     project |-> node.text,
     type    |-> PyOr(DictGet(shape_type_mapping, node.shape),
                      DictGet(ParentOrEmpty(parent), "type")),
     status  |-> PyOr(DictGet(color_status_mapping, node.bgColor),
                      DictGet(ParentOrEmpty(parent), "status")),
     worker  |-> node.eicon]

\* The dict built in the try block; KeyError when node["@text"] is missing.
NodeResult(node, project, parent) ==
    [task    |-> node.text,
     project |-> project,
     type    |-> PyOr(DictGet(shape_type_mapping, node.shape),
                      DictGet(ParentOrEmpty(parent), "type")),
     status  |-> PyOr(DictGet(color_status_mapping, node.bgColor),
                      DictGet(ParentOrEmpty(parent), "status")),
     worker  |-> node.eicon]

RaisesKeyError(node) == node.text = None

\* TopicList without the isinstance test: a lone child is not wrapped in a list
\* and is never visited as a topic.
TopicListNoWrap(t) == IF t.kind = "list" THEN t.items ELSE <<>>

\* topic = node.get("topic", []); topic if isinstance(topic, list) else [topic]
TopicList(t) == IF t.kind = "list" THEN t.items
                ELSE IF t.kind = "absent" THEN <<>> ELSE <<t.items[1]>>

\* One call of _parse_node: the record (or the caught KeyError), then the
\* recursive calls for the children, each given this call's result.
ParseNode ==
    /\ pc = "extract_tasks"
    /\ stack # <<>>
    /\ LET f      == Head(stack)
           node   == mindmap[f.node]
           failed == RaisesKeyError(node)
           result == IF failed THEN <<>>
                     ELSE <<NodeResult(node, f.project, f.parent)>>
           topic  == TopicList(Topic(mindmap, f.node))
       IN /\ out' = IF failed THEN out ELSE Append(out, result[1])
          /\ calls' = Append(calls, [node |-> f.node, parent |-> f.parent,
                                     rec |-> IF failed THEN 0 ELSE Len(out) + 1])
          /\ stack' = [j \in 1..Len(topic) |->
                          [node |-> topic[j], project |-> f.project,
                           parent |-> result]] \o Tail(stack)
    /\ UNCHANGED <<excel_path, tasks, stats, mindmap, arg_path, pc, proj_i,
                   new_tasks, new_stats, row_i, new_tasks_count,
                   closed_tasks_count, store, warned, clock, runs>>

(***************************************************************************)
(* extract_tasks                                                           *)
(***************************************************************************)
\* main_node = xml_data["map"]["topic"]["topic"]; a missing key is a KeyError
\* and the keys of a single dict are strings, which project["@text"] rejects.
MainNodeIterable(m) == Topic(m, 0).kind = "list"

ExtractTasksBegin ==
    /\ out' = <<>>
    /\ calls' = <<>>
    /\ stack' = <<>>
    /\ proj_i' = 1
    /\ pc' = IF MainNodeIterable(mindmap) THEN "extract_tasks" ELSE "error"

\* A direct call of extract_tasks.
ExtractTasks ==
    /\ pc = "idle"
    /\ ExtractTasksBegin
    /\ UNCHANGED <<excel_path, tasks, stats, mindmap, arg_path, new_tasks,
                   new_stats, row_i, new_tasks_count, closed_tasks_count,
                   store, warned, clock, runs>>

\* for project in main_node: self._parse_node(tasks, project, project["@text"])
ExtractProject ==
    /\ pc = "extract_tasks"
    /\ stack = <<>>
    /\ proj_i <= Len(Topic(mindmap, 0).items)
    /\ LET p == Topic(mindmap, 0).items[proj_i] IN
         IF mindmap[p].text = None
         THEN /\ pc' = "error"
              /\ UNCHANGED <<stack, proj_i>>
         ELSE /\ stack' = <<[node |-> p, project |-> mindmap[p].text,
                             parent |-> <<>>]>>
              /\ proj_i' = proj_i + 1
              /\ pc' = pc
    /\ UNCHANGED <<excel_path, tasks, stats, mindmap, arg_path, out, calls,
                   new_tasks, new_stats, row_i, new_tasks_count,
                   closed_tasks_count, store, warned, clock, runs>>

\* return pd.DataFrame(tasks)
ExtractReturn ==
    /\ pc = "extract_tasks"
    /\ stack = <<>>
    /\ proj_i > Len(Topic(mindmap, 0).items)
    /\ new_tasks' = out
    /\ pc' = "get_stat"
    /\ UNCHANGED <<excel_path, tasks, stats, mindmap, arg_path, out, proj_i,
                   stack, calls, new_stats, row_i, new_tasks_count,
                   closed_tasks_count, store, warned, clock, runs>>

(***************************************************************************)
(* get_stat                                                                *)
(***************************************************************************)
complete_mark == "complete"

\* d[k] = v on a dict.
DictPut(d, k, v) == [x \in DOMAIN d \cup {k} |-> IF x = k THEN v ELSE d[x]]

RECURSIVE Unique(_, _)
\* Series.unique(): the values in order of first appearance.
Unique(seq, seen) ==
    IF seq = <<>> THEN <<>>
    ELSE IF Head(seq) \in seen THEN Unique(Tail(seq), seen)
    ELSE <<Head(seq)>> \o Unique(Tail(seq), seen \cup {Head(seq)})

Workers(rows) == Unique([j \in 1..Len(rows) |-> rows[j].worker], {})

\* tasks[tasks["status"] != "complete"].shape[0]
OpenedCount(rows) == Len(SelectSeq(rows, LAMBDA r : r.status # complete_mark))

\* WorkerOpenCount without the status mask: all of the worker's records.
WorkerCountAll(rows, w) == Len(SelectSeq(rows, LAMBDA r : r.worker = w))

\* tasks[(tasks["worker"] == w) & (tasks["status"] != "complete")].shape[0]
WorkerOpenCount(rows, w) ==
    Len(SelectSeq(rows, LAMBDA r : r.worker = w /\ r.status # complete_mark))

RECURSIVE WorkerCounters(_, _, _)
\* for w in tasks["worker"].unique(): if w is not None: stat[w] = ...
WorkerCounters(stat, ws, rows) ==
    IF ws = <<>> THEN stat
    ELSE WorkerCounters(IF Head(ws) # None
                        THEN DictPut(stat, Head(ws), WorkerOpenCount(rows, Head(ws)))
                        ELSE stat,
                        Tail(ws), rows)

\* The dict stat of get_stat, which becomes the snapshot's single row.
StatRow(rows, now) ==
    WorkerCounters(("date" :> now) @@ ("opened tasks" :> OpenedCount(rows))
                     @@ ("new tasks" :> 0) @@ ("closed tasks" :> 0),
                   Workers(rows), rows)

\* pd.DataFrame([]) has no column "status": tasks["status"] is a KeyError.
GetStat ==
    /\ pc = "get_stat"
    /\ IF new_tasks = <<>>
       THEN /\ pc' = "error"
            /\ UNCHANGED <<new_stats, clock>>
       ELSE /\ clock' = clock + 1
            /\ new_stats' = StatRow(new_tasks, clock')
            /\ pc' = "diff_stat"
    /\ UNCHANGED <<excel_path, tasks, stats, mindmap, arg_path, out, proj_i,
                   stack, calls, new_tasks, row_i, new_tasks_count,
                   closed_tasks_count, store, warned, runs>>

(***************************************************************************)
(* diff_stat                                                               *)
(***************************************************************************)
\* self.tasks[(self.tasks["task"] == t["task"])
\*            & (self.tasks["project"] == t["project"])]
SameTask(prev, t) ==
    SelectSeq(prev, LAMBDA r : r.task = t.task /\ r.project = t.project)

\* Classify reading the last matching previous record instead of the first.
ClassifyLastMatch(t, same_task) ==
    LET t_new_count == Len(same_task) IN
    IF t_new_count = 0
    THEN (IF t.status # complete_mark THEN "new" ELSE "none")
    ELSE IF /\ t_new_count # 0
            /\ same_task[t_new_count].status # complete_mark
            /\ t.status = complete_mark
    THEN "closed"
    ELSE IF /\ t.status = "complite"
            /\ same_task[t_new_count].status # complete_mark
    THEN "new"
    ELSE "none"

\* The branch one row of new_tasks takes in the loop of diff_stat.
Classify(t, same_task) ==
    LET t_new_count == Len(same_task) IN
    IF t_new_count = 0
    THEN (IF t.status # complete_mark THEN "new" ELSE "none")
    ELSE IF /\ t_new_count # 0
            /\ same_task[1].status # complete_mark
            /\ t.status = complete_mark
    THEN "closed"
    ELSE IF /\ t.status = "complite"
            /\ same_task[1].status # complete_mark
    THEN "new"
    ELSE "none"

\* The guard, and the counters set to 0.
DiffStat ==
    /\ pc = "diff_stat"
    /\ IF excel_path = None
       THEN /\ pc' = "update_data"
            /\ UNCHANGED <<row_i, new_tasks_count, closed_tasks_count>>
       ELSE /\ new_tasks_count' = 0
            /\ closed_tasks_count' = 0
            /\ row_i' = 1
            /\ pc' = "diff_loop"
    /\ UNCHANGED <<excel_path, tasks, stats, mindmap, arg_path, out, proj_i,
                   stack, calls, new_tasks, new_stats, store, warned, clock,
                   runs>>

\* One iteration of for i, t in new_tasks.iterrows().
DiffRow ==
    /\ pc = "diff_loop"
    /\ row_i <= Len(new_tasks)
    /\ LET t    == new_tasks[row_i]
           kind == Classify(t, SameTask(tasks[1], t))
       IN /\ new_tasks_count' = new_tasks_count + (IF kind = "new" THEN 1 ELSE 0)
          /\ closed_tasks_count' =
                 closed_tasks_count + (IF kind = "closed" THEN 1 ELSE 0)
    /\ row_i' = row_i + 1
    /\ UNCHANGED <<excel_path, tasks, stats, mindmap, arg_path, pc, out,
                   proj_i, stack, calls, new_tasks, new_stats, store, warned,
                   clock, runs>>

\* new_stats["new tasks"] = ...; new_stats["closed tasks"] = ...; return
DiffReturn ==
    /\ pc = "diff_loop"
    /\ row_i > Len(new_tasks)
    /\ new_stats' = DictPut(DictPut(new_stats, "new tasks", new_tasks_count),
                            "closed tasks", closed_tasks_count)
    /\ pc' = "update_data"
    /\ UNCHANGED <<excel_path, tasks, stats, mindmap, arg_path, out, proj_i,
                   stack, calls, new_tasks, row_i, new_tasks_count,
                   closed_tasks_count, store, warned, clock, runs>>

(***************************************************************************)
(* update_data, save_excel                                                 *)
(***************************************************************************)
\* The cell pandas puts where a row has no value for a column.
NaN == -1

\* A row widened to the columns cols.
Widen(row, cols) == [c \in cols |-> IF c \in DOMAIN row THEN row[c] ELSE NaN]

\* pd.concat([a, b], axis=0, ignore_index=True) of two frames.
ConcatFrames(a, b) ==
    LET cols == a.cols \cup b.cols IN
    [cols |-> cols,
     rows |-> [j \in 1..Len(a.rows) |-> Widen(a.rows[j], cols)]
              \o [j \in 1..Len(b.rows) |-> Widen(b.rows[j], cols)]]

\* The one-row frame get_stat returns.
OneRowFrame(row) == [cols |-> DOMAIN row, rows |-> <<row>>]

\* ConcatStats that keeps the new row only.
ConcatStatsReplace(old, row) == OneRowFrame(row)

\* pd.concat([self.stats, new_stats], ...): concat drops a None.
ConcatStats(old, row) ==
    IF old = <<>> THEN OneRowFrame(row) ELSE ConcatFrames(old[1], OneRowFrame(row))

UpdateData ==
    /\ pc = "update_data"
    /\ tasks' = <<new_tasks>>
    /\ stats' = <<ConcatStats(stats, new_stats)>>
    /\ pc' = "save_excel"
    /\ UNCHANGED <<excel_path, mindmap, arg_path, out, proj_i, stack, calls,
                   new_tasks, new_stats, row_i, new_tasks_count,
                   closed_tasks_count, store, warned, clock, runs>>

\* out_path = path or self.config.excel_path
OutPath(path) == PyOr(path, excel_path)

\* The last statement of full_parse: the call returns.
SaveExcel ==
    /\ pc = "save_excel"
    /\ IF OutPath(arg_path) # None
       THEN /\ store' = <<[path |-> OutPath(arg_path), tasks |-> tasks[1],
                           stats |-> stats[1]]>>
            /\ UNCHANGED warned
       ELSE /\ warned' = TRUE
            /\ UNCHANGED store
    /\ pc' = "idle"
    /\ runs' = runs + 1
    /\ UNCHANGED <<excel_path, tasks, stats, mindmap, arg_path, out, proj_i,
                   stack, calls, new_tasks, new_stats, row_i, new_tasks_count,
                   closed_tasks_count, clock>>

(***************************************************************************)
(* full_parse, and the user who edits the mindmap between two calls        *)
(***************************************************************************)
\* The most calls of full_parse on one MindTaska.
MaxRuns == 2

FullParse ==
    /\ pc = "idle"
    /\ runs < MaxRuns
    /\ \E path \in {None, "out.xlsx"} : arg_path' = path
    /\ ExtractTasksBegin
    /\ UNCHANGED <<excel_path, tasks, stats, mindmap, new_tasks, new_stats,
                   row_i, new_tasks_count, closed_tasks_count, store, warned,
                   clock, runs>>

\* Between two calls the user closes a task: one topic is coloured green.
EditMindmap ==
    /\ pc = "idle"
    /\ 0 < runs /\ runs < MaxRuns
    /\ \E n \in 1..Len(mindmap) :
         /\ mindmap[n].bgColor # "green"
         /\ mindmap' = [mindmap EXCEPT ![n].bgColor = "green"]
    /\ UNCHANGED <<excel_path, tasks, stats, arg_path, pc, out, proj_i, stack,
                   calls, new_tasks, new_stats, row_i, new_tasks_count,
                   closed_tasks_count, store, warned, clock, runs>>

\* The locals of a MindTaska no method of which has run yet.
NoCall ==
    /\ arg_path = None
    /\ out = <<>>
    /\ proj_i = 1
    /\ stack = <<>>
    /\ calls = <<>>
    /\ row_i = 1
    /\ new_tasks_count = 0
    /\ closed_tasks_count = 0
    /\ warned = FALSE
    /\ clock = 0
    /\ runs = 0

\* A task record.
Rec(task, project, status, worker) ==
    [task |-> task, project |-> project, type |-> None, status |-> status,
     worker |-> worker]

\* The workbook an earlier process left at config.excel_path: its run on a
\* mindmap of two projects, A open and assigned to w2, B complete.
Workbooks ==
    {[path |-> "tasks.xlsx",
      tasks |-> <<Rec("A", "A", None, "w2"), Rec("B", "B", "complete", None)>>,
      stats |-> OneRowFrame(StatRow(<<Rec("A", "A", None, "w2"),
                                      Rec("B", "B", "complete", None)>>, 0))]}

\* MindTaska.__init__: both sheets are read when the config names a workbook.
Construct ==
    \/ /\ excel_path = None
       /\ store = <<>>
       /\ tasks = <<>>
       /\ stats = <<>>
    \/ \E w \in Workbooks :
       /\ excel_path = w.path
       /\ store = <<w>>
       /\ tasks = <<w.tasks>>
       /\ stats = <<w.stats>>

\* The most topics below the central topic in a document given to full_parse.
MaxTopics == 2

\* (text, (shape, bgColor, eicon id)): every topic has its own label, a colour
\* that is absent or maps to "complete" or to "complite", and perhaps a worker.
PipelineAttrs == {"#"} \X ({None} \X {None, "green", "blue"} \X {None, "w1"})

Init ==
    /\ IsMindmap(mindmap, MaxTopics, PipelineAttrs)
    /\ Construct
    /\ pc = "idle"
    /\ new_tasks = <<>>
    /\ new_stats = EmptyDict
    /\ NoCall

Next ==
    \/ FullParse
    \/ EditMindmap
    \/ ExtractProject
    \/ ParseNode
    \/ ExtractReturn
    \/ GetStat
    \/ DiffStat
    \/ DiffRow
    \/ DiffReturn
    \/ UpdateData
    \/ SaveExcel

Spec == Init /\ [][Next]_vars

(***************************************************************************)
(* The flattener on its own: extract_tasks applied to every small document.*)
(***************************************************************************)
\* (shape, bgColor, eicon id): nothing; a mapped shape with an unmapped colour;
\* an unmapped shape with a mapped colour.
FlattenStyles == {<<None, None, None>>, <<"rect", "gray", None>>,
                  <<"line", "green", None>>}

InitFlatten ==
    /\ IsMindmap(mindmap, MaxNodes, {None, "#"} \X FlattenStyles)
    /\ excel_path = None
    /\ store = <<>>
    /\ tasks = <<>>
    /\ stats = <<>>
    /\ pc = "idle"
    /\ new_tasks = <<>>
    /\ new_stats = EmptyDict
    /\ NoCall

NextFlatten == ExtractTasks \/ ExtractProject \/ ParseNode \/ ExtractReturn

SpecFlatten == InitFlatten /\ [][NextFlatten]_vars

(***************************************************************************)
(* get_stat on its own: applied to every short task table.                 *)
(***************************************************************************)
\* The most records in a table given to get_stat.
MaxRows == 3

\* Worker ids are icon ids of the authoring tool, none of them one of the four
\* fixed keys of stat ("date", "opened tasks", "new tasks", "closed tasks").
StatRows == {Rec("T", "P", st, w) : st \in {None, "complete", "open"},
                                    w \in {None, "w1", "w2"}}

InitStat ==
    /\ \E n \in 1..MaxRows : new_tasks \in [1..n -> StatRows]
    /\ mindmap = <<>>
    /\ excel_path = None
    /\ store = <<>>
    /\ tasks = <<>>
    /\ stats = <<>>
    /\ pc = "get_stat"
    /\ new_stats = EmptyDict
    /\ NoCall

NextStat == GetStat

SpecStat == InitStat /\ [][NextStat]_vars

(***************************************************************************)
(* diff_stat on its own: every short new table against every short         *)
(* previous table, with and without a configured workbook.                 *)
(***************************************************************************)
\* The most records in self.tasks and in new_tasks given to diff_stat.
MaxPrev == 2

MaxNew == 2

DiffKeys == {<<"T", "P">>, <<"U", "P">>, <<"T", "Q">>}

DiffRows == {Rec(k[1], k[2], st, None) :
                k \in DiffKeys, st \in {None, "complete", "complite"}}

\* diff_stat only asks whether a previous status is "complete".
PrevRows == {Rec(k[1], k[2], st, None) : k \in DiffKeys, st \in {None, "complete"}}

InitDiff ==
    /\ \E n \in 1..MaxNew : new_tasks \in [1..n -> DiffRows]
    /\ \/ /\ excel_path = None
          /\ store = <<>>
          /\ tasks = <<>>
          /\ stats = <<>>
       \/ \E n \in 0..MaxPrev : \E prev \in [1..n -> PrevRows] :
          /\ excel_path = "tasks.xlsx"
          /\ store = <<[path |-> excel_path, tasks |-> prev,
                        stats |-> [cols |-> {}, rows |-> <<>>]]>>
          /\ tasks = <<prev>>
          /\ stats = <<[cols |-> {}, rows |-> <<>>]>>
    /\ mindmap = <<>>
    /\ pc = "diff_stat"
    /\ new_stats = StatRow(new_tasks, 1)
    /\ arg_path = None
    /\ out = <<>>
    /\ proj_i = 1
    /\ stack = <<>>
    /\ calls = <<>>
    /\ row_i = 1
    /\ new_tasks_count = 0
    /\ closed_tasks_count = 0
    /\ warned = FALSE
    /\ clock = 1
    /\ runs = 0

NextDiff == DiffStat \/ DiffRow \/ DiffReturn

SpecDiff == InitDiff /\ [][NextDiff]_vars

(***************************************************************************)
(* Properties of the flattener (SpecFlatten).                              *)
(***************************************************************************)
RECURSIVE TopOf(_, _)
\* The top-level topic that encloses topic n (n itself when it is top-level).
TopOf(m, n) == IF m[n].up = 0 THEN n ELSE TopOf(m, m[n].up)

RECURSIVE Depth(_, _)
Depth(m, n) == IF m[n].up = 0 THEN 1 ELSE 1 + Depth(m, m[n].up)

\* The proper ancestors of topic n.
Ancestors(m, n) == AncOrSelf([i \in 1..Len(m) |-> m[i].up], n) \ {n}

\* The call made for topic n, if any.
CallsOf(n) == {j \in 1..Len(calls) : calls[j].node = n}

\* The topics for which a record was emitted.
Emitted == {calls[j].node : j \in {k \in 1..Len(calls) : calls[k].rec > 0}}

\* The record emitted for an emitted topic n.
RecordOf(n) == out[calls[CHOOSE j \in CallsOf(n) : calls[j].rec > 0].rec]

\* C1: every record emitted for a top-level topic or for one of its
\* descendants, at any depth, carries that top-level topic's text as project.
C1_ProjectIsTopLevelLabel ==
    \A j \in 1..Len(calls) :
        calls[j].rec > 0 =>
            /\ calls[j].rec <= Len(out)
            /\ out[calls[j].rec].project = mindmap[TopOf(mindmap, calls[j].node)].text
            /\ out[calls[j].rec].task = mindmap[calls[j].node].text

C1_Witness ==
    /\ pc = "get_stat"
    /\ new_tasks = out
    /\ \E n \in Emitted : /\ Depth(mindmap, n) = 3
                          /\ RecordOf(n).project # RecordOf(n).task
    /\ \E a, b \in Emitted : RecordOf(a).project # RecordOf(b).project

\* The ancestors of n that carry a text (the ones a record is built for).
ResolvedAncestors(m, n) == {a \in Ancestors(m, n) : m[a].text # None}

\* The nearest ancestor of n in the set as (the one with the largest number,
\* since a topic's ancestors are numbered in nesting order).
Nearest(as) == CHOOSE a \in as : \A b \in as : b <= a

\* The type (status) the nearest ancestor with a mapped shape (colour) maps to.
NearestType(m, n) ==
    LET as == {a \in ResolvedAncestors(m, n) :
                  DictGet(shape_type_mapping, m[a].shape) # None}
    IN IF as = {} THEN None ELSE shape_type_mapping[m[Nearest(as)].shape]

NearestStatus(m, n) ==
    LET as == {a \in ResolvedAncestors(m, n) :
                  DictGet(color_status_mapping, m[a].bgColor) # None}
    IN IF as = {} THEN None ELSE color_status_mapping[m[Nearest(as)].bgColor]

\* C2: a record whose topic has no shape (colour) of its own in the mapping has
\* the type (status) of the nearest ancestor that resolved one, through any
\* number of topics in between, and none if no ancestor did.
C2_InheritsFromNearestAncestor ==
    \A n \in Emitted :
        /\ DictGet(shape_type_mapping, mindmap[n].shape) = None
              => RecordOf(n).type = NearestType(mindmap, n)
        /\ DictGet(color_status_mapping, mindmap[n].bgColor) = None
              => RecordOf(n).status = NearestStatus(mindmap, n)

\* The children of topic n.
ChildrenOf(m, n) == {c \in 1..Len(m) : m[c].up = n}

\* What the parent handed to the call for topic c answers for a key.
Inherited(c, key) ==
    DictGet(ParentOrEmpty(calls[CHOOSE j \in CallsOf(c) : TRUE].parent), key)

\* The record of the last ancestor of n that was resolved, as a dict.
IntendedParent(m, n) ==
    IF ResolvedAncestors(m, n) = {} THEN EmptyDict
    ELSE RecordOf(Nearest(ResolvedAncestors(m, n)))

\* C3: a topic without text gets no record, the walk goes on, each of its
\* children is visited, and each child inherits type and status from the
\* failed topic's intended parent.
C3_FailedNodeKeepsInheritance ==
    pc = "get_stat" =>
        \A n \in 1..Len(mindmap) :
            mindmap[n].text = None =>
                /\ n \notin Emitted
                /\ Cardinality(CallsOf(n)) = 1
                /\ \A c \in ChildrenOf(mindmap, n) :
                      /\ Cardinality(CallsOf(c)) = 1
                      /\ Inherited(c, "type")
                            = DictGet(IntendedParent(mindmap, n), "type")
                      /\ Inherited(c, "status")
                            = DictGet(IntendedParent(mindmap, n), "status")

\* Where the call for topic n stands in the order of calls.
Pos(n) == CHOOSE j \in CallsOf(n) : TRUE

\* C4: when every topic has a text, there is exactly one record per topic, a
\* topic's record comes before those of its descendants, siblings keep their
\* document order, and the records are the document's topics in order.
C4_PreOrderOneRecordPerNode ==
    (pc = "get_stat" /\ \A n \in 1..Len(mindmap) : mindmap[n].text # None) =>
        /\ Len(new_tasks) = Len(mindmap)
        /\ \A n \in 1..Len(mindmap) :
              /\ Cardinality(CallsOf(n)) = 1
              /\ calls[Pos(n)].rec = Pos(n)
              /\ new_tasks[Pos(n)].task = mindmap[n].text
              /\ \A a \in Ancestors(mindmap, n) : Pos(a) < Pos(n)
              /\ \A b \in 1..Len(mindmap) :
                    (mindmap[b].up = mindmap[n].up /\ n < b) => Pos(n) < Pos(b)
              /\ Pos(n) = n

C4_Witness ==
    /\ pc = "get_stat"
    /\ \A n \in 1..Len(mindmap) : mindmap[n].text # None
    /\ Len(new_tasks) = MaxNodes
    /\ \E n \in 1..Len(mindmap) : /\ Topic(mindmap, n).kind = "dict"
                                  /\ Depth(mindmap, n) = 2

(***************************************************************************)
(* Properties of get_stat (SpecStat).                                      *)
(***************************************************************************)
RECURSIVE SumOver(_, _)
SumOver(d, ks) == IF ks = {} THEN 0
                  ELSE LET k == CHOOSE x \in ks : TRUE
                       IN d[k] + SumOver(d, ks \ {k})

FixedColumns == {"date", "opened tasks", "new tasks", "closed tasks"}

OpenRows(rows) == {j \in 1..Len(rows) : rows[j].status # "complete"}

WorkersIn(rows) == {rows[j].worker : j \in 1..Len(rows)} \ {None}

\* C5: 'opened tasks' is the number of records that are not complete, there
\* is one counter per worker that occurs, equal to that worker's number of
\* records that are not complete, and the counters sum to at most
\* 'opened tasks'.
C5_StatCounts ==
    pc = "diff_stat" =>
        /\ new_stats["opened tasks"] = Cardinality(OpenRows(new_tasks))
        /\ DOMAIN new_stats = FixedColumns \cup WorkersIn(new_tasks)
        /\ \A w \in WorkersIn(new_tasks) :
              new_stats[w] = Cardinality({j \in OpenRows(new_tasks) :
                                             new_tasks[j].worker = w})
        /\ SumOver(new_stats, WorkersIn(new_tasks)) <= new_stats["opened tasks"]
        /\ new_stats["new tasks"] = 0
        /\ new_stats["closed tasks"] = 0

C5_Witness ==
    /\ pc = "diff_stat"
    /\ WorkersIn(new_tasks) = {"w1", "w2"}
    /\ new_stats["w1"] = 1
    /\ new_stats["w2"] = 0
    /\ new_stats["opened tasks"] = 2

(***************************************************************************)
(* Properties of diff_stat (SpecDiff) and of the pipeline (Spec).          *)
(***************************************************************************)
\* The previous records with the key of t, by position.
Matches(prev, t) ==
    {j \in 1..Len(prev) : prev[j].task = t.task /\ prev[j].project = t.project}

\* t is complete and the first previous record with its key is not.
Closing(prev, t) ==
    /\ t.status = "complete"
    /\ \E j \in Matches(prev, t) :
          /\ \A k \in Matches(prev, t) : j <= k
          /\ prev[j].status # "complete"

\* t has no previous record with its key and is not complete.
UnmatchedOpen(prev, t) == Matches(prev, t) = {} /\ t.status # "complete"

\* C6: a run on the mindmap of the previous run, diffed against the table
\* that run stored, reports no new and no closed task.
C6_RerunReportsNothing ==
    (pc = "update_data" /\ tasks = <<new_tasks>>) =>
        /\ new_stats["new tasks"] = 0
        /\ new_stats["closed tasks"] = 0

\* The rows of self.stats (none while it is None).
StatRowsOf(st) == IF st = <<>> THEN <<>> ELSE st[1].rows

StatColsOf(st) == IF st = <<>> THEN {} ELSE st[1].cols

\* C7: update_data replaces the task table by new_tasks and appends exactly
\* one row to the stat table, keeping every earlier row, with its values, at
\* its position; no other step touches either table.
C7_StatsAppendOnly ==
    [][IF pc = "update_data" /\ pc' = "save_excel"
       THEN /\ tasks' = <<new_tasks>>
            /\ Len(StatRowsOf(stats')) = Len(StatRowsOf(stats)) + 1
            /\ \A j \in 1..Len(StatRowsOf(stats)) :
                  \A c \in StatColsOf(stats) :
                      StatRowsOf(stats')[j][c] = StatRowsOf(stats)[j][c]
            /\ \A c \in DOMAIN new_stats :
                  StatRowsOf(stats')[Len(StatRowsOf(stats'))][c] = new_stats[c]
       ELSE /\ tasks' = tasks
            /\ stats' = stats]_vars

C7_Witness ==
    /\ pc = "save_excel"
    /\ runs >= 1
    /\ Len(StatRowsOf(stats)) = 3
    /\ tasks = <<new_tasks>>
    /\ \E c \in StatColsOf(stats) : /\ StatRowsOf(stats)[1][c] = NaN
                                    /\ StatRowsOf(stats)[3][c] # NaN

C9_NewCountsUnmatchedOpen ==
    (pc = "update_data" /\ excel_path # None) =>
        new_stats["new tasks"] =
            Cardinality({j \in 1..Len(new_tasks) :
                            UnmatchedOpen(tasks[1], new_tasks[j])})

\* C10: without a previous task table diff_stat returns the snapshot of
\* get_stat, with both counts 0; with one, the snapshot carries the counts of
\* the classification against it.
C10_DiffsWheneverTableExists ==
    pc = "update_data" =>
        IF tasks = <<>>
        THEN new_stats = StatRow(new_tasks, clock)
        ELSE /\ new_stats["closed tasks"] =
                    Cardinality({j \in 1..Len(new_tasks) :
                                    Closing(tasks[1], new_tasks[j])})
             /\ new_stats["new tasks"] =
                    Cardinality({j \in 1..Len(new_tasks) :
                        Classify(new_tasks[j],
                                 SameTask(tasks[1], new_tasks[j])) = "new"})

====
